---- MODULE Spec2Model ----
(***************************************************************************)
(* Crawl engine of the autism-employment crawlers.                         *)
(*                                                                         *)
(* Two programs of the repository share the frontier loop:                 *)
(*   impl = "state" : StateAutismEmploymentCrawler (src/StateCrawler.py)   *)
(*   impl = "full"  : the companion script                                 *)
(*                    (src/autism_employment_full_crawler.py)              *)
(* One crawl session is modelled as a sequential process; pc is the        *)
(* position of the session inside crawl().  The web is the environment:    *)
(* every robots.txt answer, HTTP response and page body is drawn           *)
(* nondeterministically when the code asks for it.                         *)
(***************************************************************************)
EXTENDS Integers, Sequences, FiniteSets, TLC

\* ---------------------------------------------------------------- bounds
NumUrls == 3
MaxSeeds == 3
MaxPagesBound == 2
MaxDepthBound == 1
MaxRetriesBound == 2

\* The most redirects a server answers one page request with.
MaxRedirects == 1

\* -------------------------------------------------------------- strings
\* Where the code looks inside a string (`in`, str.lower, str.title, the
\* regular expressions) the string is a sequence of one-character strings
\* and the operation is computed character by character.

Range(s) == {s[i] : i \in DOMAIN s}

UpperCase ==
    <<"A", "B", "C", "D", "E", "F", "G", "H", "I", "J", "K", "L", "M",
      "N", "O", "P", "Q", "R", "S", "T", "U", "V", "W", "X", "Y", "Z">>

LowerCase ==
    <<"a", "b", "c", "d", "e", "f", "g", "h", "i", "j", "k", "l", "m",
      "n", "o", "p", "q", "r", "s", "t", "u", "v", "w", "x", "y", "z">>

Digits == {"0", "1", "2", "3", "4", "5", "6", "7", "8", "9"}

\* The cased letters str.lower changes.
UpperLetters == Range(UpperCase)

Letters == UpperLetters \cup Range(LowerCase)

\* The position of a letter in the alphabet.
LetterIndex(c) ==
    CHOOSE i \in DOMAIN UpperCase : UpperCase[i] = c \/ LowerCase[i] = c

\* str.lower()
lower(s) ==
    [i \in DOMAIN s |->
        IF s[i] \in UpperLetters THEN LowerCase[LetterIndex(s[i])]
        ELSE s[i]]

\* str.title(): a letter that follows a letter is lowercased, every other
\* letter is uppercased.
title(s) ==
    [i \in DOMAIN s |->
        IF s[i] \notin Letters THEN s[i]
        ELSE IF i > 1 /\ s[i - 1] \in Letters
        THEN LowerCase[LetterIndex(s[i])]
        ELSE UpperCase[LetterIndex(s[i])]]

\* s[i:].startswith(t), with i counted from 1
MatchAt(t, s, i) ==
    /\ i >= 1
    /\ i + Len(t) - 1 <= Len(s)
    /\ \A k \in DOMAIN t : s[i + k - 1] = t[k]

\* t in s
Contains(t, s) == \E i \in 1..(Len(s) - Len(t) + 1) : MatchAt(t, s, i)

\* The smallest element of a non-empty set of integers.
Least(S) == CHOOSE x \in S : \A y \in S : x <= y

\* The largest element of a non-empty set of integers.
Greatest(S) == CHOOSE x \in S : \A y \in S : x >= y

\* \w of the re module, for ASCII text
IsWordChar(c) == c \in Letters \cup Digits \cup {"_"}

\* \b in front of s[i]: exactly one of s[i-1], s[i] is a word character;
\* outside the string there is none.
WordBoundary(s, i) ==
    ((i - 1) \in DOMAIN s /\ IsWordChar(s[i - 1]))
        # (i \in DOMAIN s /\ IsWordChar(s[i]))

\* The last index of the longest run of characters of class cls that starts
\* at s[i]; i - 1 when s[i] is not in the class.
RunEnd(s, i, cls) ==
    Least({k \in i..(Len(s) + 1) : k = Len(s) + 1 \/ s[k] \notin cls}) - 1

\* sep.join(parts)
RECURSIVE join(_, _)
join(sep, parts) ==
    IF parts = <<>> THEN <<>>
    ELSE IF Len(parts) = 1 THEN parts[1]
    ELSE parts[1] \o sep \o join(sep, Tail(parts))

\* ------------------------------------------------------------- universe
URLs == 1..NumUrls

\* urlparse(url).scheme + "://" + netloc: URLs 1 and 2 live on one origin,
\* 3 and 4 on the next, and so on.
Origin(u) == (u + 1) \div 2

Origins == {Origin(u) : u \in URLs}

Impls == {"state", "full"}

\* Retry(status_forcelist=[429, 500, 502, 503, 504])
status_forcelist == {429, 500, 502, 503, 504}

\* The answers one request attempt can get; 0 stands for no response at all
\* (connection error, timeout).
Statuses == {0, 200, 302, 404, 429, 503}

\* 'text/html'
TextHtml == <<"t", "e", "x", "t", "/", "h", "t", "m", "l">>

\* response.headers.get('content-type', ''): the header as servers send it,
\* and the empty string of a response without the header.
ContentTypes ==
  {
    <<"t", "e", "x", "t", "/", "h", "t", "m", "l">>,
    <<"t", "e", "x", "t", "/", "h", "t", "m", "l", ";", " ", "c", "h", "a",
      "r", "s", "e", "t", "=", "u", "t", "f", "-", "8">>,
    <<"T", "E", "X", "T", "/", "H", "T", "M", "L">>,
    <<"m", "u", "l", "t", "i", "p", "a", "r", "t", "/", "r", "e", "l", "a",
      "t", "e", "d", ";", " ", "t", "y", "p", "e", "=", "\"", "t", "e", "x",
      "t", "/", "h", "t", "m", "l", "\"">>,
    <<"a", "p", "p", "l", "i", "c", "a", "t", "i", "o", "n", "/", "p", "d",
      "f">>,
    <<>>
  }

\* No content-type header has been read for the task in hand.
NotRead == <<"none">>

\* rp.read(); rp.can_fetch('*', url): how the retrieval of robots.txt ends.
\*   "allow", "deny"  the file was read and its rules answer for the URL
\*   "raise"          an exception leaves read(): URLError, timeout,
\*                    undecodable file
\*   "forbidden"      urlopen raises HTTPError 401 or 403; read() catches
\*                    it and sets disallow_all
\*   "missing"        urlopen raises another HTTPError 4xx; read() catches
\*                    it and sets allow_all
\*   "unavailable"    urlopen raises HTTPError 5xx; read() catches it and
\*                    sets nothing, so that the parser has no rules and
\*                    no time of last check
RobotsOutcomes ==
    {"allow", "deny", "raise", "forbidden", "missing", "unavailable"}

\* The retrievals that ended in an error raised by urlopen or by the
\* decoding of the file.
RobotsFailures == {"raise", "forbidden", "missing", "unavailable"}

\* urlopen follows the redirects that robots.txt is answered with,
\* whatever their target: the origins that a robots.txt request is sent to
\* after the one of the URL's own origin.  A redirect may lead to the same
\* origin again (to the same URL once more, or to another path of it).
RobotsRoutes == UNION {[1..n -> Origins] : n \in 0..MaxRedirects}

\* soup.title: no title element, a title element whose .string is None,
\* a title element with text.
TitleKinds == {"none", "blank", "text"}

\* crawl(max_pages=...): a budget of at least one page.
PageBudgets == 1..MaxPagesBound

\* crawl(max_depth=...): any integer is taken, a negative one included.
DepthLimits == -1..MaxDepthBound

\* __init__(max_retries=...)
RetryCeilings == 0..MaxRetriesBound

\* crawl(start_urls): every list of at most MaxSeeds URLs, repeats
\* included.
SeedLists == UNION {[1..n -> URLs] : n \in 0..MaxSeeds}

\* All orders in which the elements of a set can be iterated.
RECURSIVE Orders(_)
Orders(S) ==
    IF S = {} THEN {<<>>}
    ELSE UNION {{<<x>> \o s : s \in Orders(S \ {x})} : x \in S}

\* A Location header that requests cannot turn into a URL: bytes that are
\* not UTF-8 (UnicodeDecodeError in get_redirect_target) or a netloc that
\* urlparse rejects (ValueError in resolve_redirects).
BadLocation == -1

\* What one request attempt is answered with.  location is the URL of the
\* Location header, BadLocation when it cannot be parsed, 0 when the
\* response has none; only a 302 is given one.
\* The content type is read by the code only on a response that is neither
\* retried, redirected nor an error, and the text only when the content
\* type passes the test of get_page_content.
Responses ==
    LET Html == {c \in ContentTypes : Contains(TextHtml, lower(c))}
        Answer(s, l, c, t) ==
            [status |-> s, location |-> l, ctype |-> c, text |-> t]
    IN  {Answer(s, 0, TextHtml, "") : s \in Statuses \ {200, 302}}
          \cup {Answer(302, u, TextHtml, "") : u \in URLs \cup {BadLocation}}
          \cup {Answer(s, 0, c, t) :
                    s \in {200, 302}, c \in Html, t \in {"", "page"}}
          \cup {Answer(s, 0, c, "") :
                    s \in {200, 302}, c \in ContentTypes \ Html}

NoTask == [url |-> 0, depth |-> 0]

\* A fetched page as the crawl loop sees it: its title element, whether the
\* relevance test admits it, the links in the order the set of extracted
\* links is iterated, and whether an href makes urljoin raise.
Pages ==
    {p \in [title : TitleKinds, relevant : BOOLEAN, linkErr : BOOLEAN,
            order : UNION {Orders(S) : S \in SUBSET URLs}] :
        /\ p.linkErr => p.order = <<>>
        /\ (~p.relevant \/ p.title = "blank") => (p.order = <<>> /\ ~p.linkErr)}

VARIABLES
    impl,          \* which program runs
    max_retries,   \* __init__(max_retries): the retry ceiling of the adapter
    pc,            \* position of the session
    start_urls,    \* crawl() arguments
    max_pages,
    max_depth,
    visited,       \* set of URLs
    results,       \* sequence of result records
    q,             \* queue.Queue of (url, depth)
    cur,           \* url, depth of the task being processed
    html,          \* what get_page_content returned for it
    fails,         \* retryable failures of the page request of this task
                   \* at the URL it is sent to: counted anew after a redirect
    fetchEnd,      \* how the page request of this task ended
    robots,        \* how the robots.txt lookup of this task ended
    allowed,       \* what can_fetch answered for this task
    requested,     \* the page request of this task was issued
    content_type,  \* content_type of get_page_content: the header read,
                   \* lowercased
    hops,          \* redirects followed by the page request in progress
    target,        \* the URL get_page_content is at work on: the URL of
                   \* the task or, after a redirect, the one the request
                   \* is sent to; 0 when no call is in progress
    delayed,       \* a time.sleep(delay) happened since the last fetch call
    undelayed,     \* history: fetch calls made with no delay step before
    added,         \* history: visited.add(url) calls per URL
    fetched,       \* history: get_page_content(url) calls per URL
    robotsReads,   \* history: robots.txt retrievals per origin
    expanded,      \* history: URLs whose links were offered to the queue
    staleLinks,    \* history: links put in the queue while already visited
    enqueuedAt,    \* history: least depth of the tasks put in the queue
                   \* per URL, -1 when there was none
    admitted,      \* the relevance test admitted the page of the iteration
                   \* that has just ended
    links,         \* what extract_links returned in that iteration
    in_words,      \* content functions: the tokens the page text is made of
    in_text,       \* content functions: the page text
    in_url,        \* content functions: the page URL
    applied,       \* content functions: the functions applied to the input
    is_relevant,   \* is_state_autism_employment_content(text, url)
    state,         \* extract_state_from_content(text, url)
    contact_info   \* extract_program_details(soup, text)['contact_info']

vars == <<impl, max_retries, pc, start_urls, max_pages, max_depth, visited,
          results, q, cur, html, fails, fetchEnd, robots, allowed, requested,
          content_type, hops, target, delayed, undelayed, added, fetched,
          robotsReads, expanded, staleLinks, enqueuedAt, admitted, links, in_words,
          in_text, in_url, applied, is_relevant, state, contact_info>>

\* The variables of the crawl session.
session == <<impl, max_retries, pc, start_urls, max_pages, max_depth, visited,
             results, q, cur, html, fails, fetchEnd, robots, allowed,
             requested, content_type, hops, target, delayed, undelayed,
             added, fetched, robotsReads, expanded, staleLinks, enqueuedAt, admitted, links>>

\* The variables of the content functions.
content == <<in_words, in_text, in_url, applied, is_relevant, state,
             contact_info>>

params == <<impl, max_retries, start_urls, max_pages, max_depth>>

\* What is known about the task in hand.
task == <<cur, html, fails, fetchEnd, robots, allowed, requested,
          content_type, hops, target>>

history == <<undelayed, added, fetched, robotsReads, expanded, staleLinks,
             enqueuedAt>>

\* No task is in hand: between two iterations of the loop.
TaskCleared ==
    /\ cur' = NoTask
    /\ html' = "unset"
    /\ fails' = 0
    /\ fetchEnd' = "none"
    /\ robots' = "none"
    /\ allowed' = "none"
    /\ requested' = FALSE
    /\ content_type' = NotRead
    /\ hops' = 0
    /\ target' = 0

\* What the iteration that has just ended did with its page.
pageOutcome == <<admitted, links>>

\* A new iteration starts, or the loop ends: nothing is known of a page.
OutcomeCleared ==
    /\ admitted' = FALSE
    /\ links' = {}

\* No content function has been given an input.
NoContent ==
    /\ in_words = <<>>
    /\ in_text = <<>>
    /\ in_url = <<>>
    /\ applied = {}
    /\ is_relevant = FALSE
    /\ state = <<>>
    /\ contact_info = <<>>

\* The crawler after construction, before crawl() is called.
Constructed ==
    /\ impl \in Impls
    /\ max_retries \in (IF impl = "state" THEN RetryCeilings ELSE {0})
    /\ pc = "idle"
    /\ start_urls = <<>>
    /\ max_pages = 0
    /\ max_depth = 0
    /\ visited = {}
    /\ results = <<>>
    /\ q = <<>>
    /\ cur = NoTask
    /\ html = "unset"
    /\ fails = 0
    /\ fetchEnd = "none"
    /\ robots = "none"
    /\ allowed = "none"
    /\ requested = FALSE
    /\ content_type = NotRead
    /\ hops = 0
    /\ target = 0
    /\ delayed = FALSE
    /\ undelayed = 0
    /\ added = [u \in URLs |-> 0]
    /\ fetched = [u \in URLs |-> 0]
    /\ robotsReads = [o \in Origins |-> 0]
    /\ expanded = {}
    /\ staleLinks = 0
    /\ enqueuedAt = [u \in URLs |-> -1]
    /\ admitted = FALSE
    /\ links = {}

\* The state after construction of the crawler, before crawl() is called.
Init == Constructed /\ NoContent

\* ------------------------------------------------------------ the loop

\* for url in start_urls: q.put((url, 0))
SeedTasks(seeds) == [i \in 1..Len(seeds) |-> [url |-> seeds[i], depth |-> 0]]

\* The least depth per URL once the tasks ts have been put in the queue.
LeastDepths(least, ts) ==
    [u \in URLs |->
        LET ds == {ts[i].depth : i \in {j \in DOMAIN ts : ts[j].url = u}}
                      \cup (IF least[u] < 0 THEN {} ELSE {least[u]})
        IN  IF ds = {} THEN -1 ELSE CHOOSE d \in ds : \A e \in ds : d <= e]

\* crawl(start_urls, max_pages, max_depth): visited, results and the queue
\* are created and the seeds are loaded.
Crawl(seeds, mp, md) ==
    /\ pc = "idle"
    /\ start_urls' = seeds
    /\ max_pages' = mp
    /\ max_depth' = md
    /\ visited' = {}
    /\ results' = <<>>
    /\ q' = SeedTasks(seeds)
    /\ enqueuedAt' = LeastDepths(enqueuedAt, SeedTasks(seeds))
    /\ pc' = "loop"
    /\ UNCHANGED <<impl, max_retries, task, delayed, undelayed, added,
                   fetched, robotsReads, expanded, staleLinks, pageOutcome,
                   content>>

\* The loop test with the budget comparison off by one.
LoopCondOffByOne == q # <<>> /\ Cardinality(visited) <= max_pages

\* while not q.empty() and len(visited) < max_pages
LoopCond == q # <<>> /\ Cardinality(visited) < max_pages

\* The task test without the dedup check.
SkipTaskNoDedup(t) == t.depth > max_depth

\* if url in visited or depth > max_depth: continue
SkipTask(t) == t.url \in visited \/ t.depth > max_depth

\* The loop condition is false: crawl() returns results.
LoopExit ==
    /\ pc = "loop"
    /\ ~LoopCond
    /\ pc' = "done"
    /\ OutcomeCleared
    /\ UNCHANGED <<params, visited, results, q, task, delayed, history,
                   content>>

\* url, depth = q.get() of a task that the dedup or depth check discards.
Discard ==
    /\ pc = "loop"
    /\ LoopCond
    /\ SkipTask(Head(q))
    /\ q' = Tail(q)
    /\ OutcomeCleared
    /\ UNCHANGED <<params, pc, visited, results, task, delayed, history,
                   content>>

\* A frontier used as a stack: the task put in last is taken first.
VisitLast ==
    /\ pc = "loop"
    /\ LoopCond
    /\ ~SkipTask(q[Len(q)])
    /\ cur' = q[Len(q)]
    /\ target' = q[Len(q)].url
    /\ q' = SubSeq(q, 1, Len(q) - 1)
    /\ visited' = visited \cup {q[Len(q)].url}
    /\ added' = [added EXCEPT ![q[Len(q)].url] = @ + 1]
    /\ pc' = IF impl = "state" THEN "sleep" ELSE "fetch"
    /\ OutcomeCleared
    /\ UNCHANGED <<params, results, html, fails, fetchEnd, robots, allowed,
                   requested, content_type, hops, delayed, undelayed,
                   fetched, robotsReads, expanded, staleLinks, enqueuedAt,
                   content>>

\* url, depth = q.get(); visited.add(url).  The state crawler goes on to
\* time.sleep, the companion straight to get_page_content.
Visit ==
    /\ pc = "loop"
    /\ LoopCond
    /\ ~SkipTask(Head(q))
    /\ cur' = Head(q)
    /\ target' = Head(q).url
    /\ q' = Tail(q)
    /\ visited' = visited \cup {Head(q).url}
    /\ added' = [added EXCEPT ![Head(q).url] = @ + 1]
    /\ pc' = IF impl = "state" THEN "sleep" ELSE "fetch"
    /\ OutcomeCleared
    /\ UNCHANGED <<params, results, html, fails, fetchEnd, robots, allowed,
                   requested, content_type, hops, delayed, undelayed,
                   fetched, robotsReads, expanded, staleLinks, enqueuedAt,
                   content>>

\* time.sleep(self.delay)
Sleep ==
    /\ pc = "sleep"
    /\ delayed' = TRUE
    /\ pc' = "robots"
    /\ UNCHANGED <<params, visited, results, q, task, history, pageOutcome,
                   content>>

\* -------------------------------------------------- politeness gate

\* can_fetch(url): try: ... rp.read(); return rp.can_fetch('*', url)
\*                 except Exception: return True
\* RobotFileParser.can_fetch answers False when disallow_all is set, True
\* when allow_all is set, False when the file was never read, and
\* otherwise what the rules say.
can_fetch(outcome) ==
    CASE outcome = "raise" -> TRUE
      [] outcome = "forbidden" -> FALSE
      [] outcome = "missing" -> TRUE
      [] outcome = "unavailable" -> FALSE
      [] OTHER -> outcome = "allow"

\* get_page_content: if not self.can_fetch(url): return None
GateBlocks(ok) == ~ok

\* The retrievals per origin after robots.txt of origin has been asked for
\* and the request was redirected along route.
Retrieved(reads, origin, route) ==
    [o \in Origins |->
        reads[o] + (IF o = origin THEN 1 ELSE 0)
                 + Cardinality({i \in DOMAIN route : route[i] = o})]

\* html = self.get_page_content(url), first half: the politeness gate.
\* A new RobotFileParser is built and read on every call; outcome is how
\* the retrieval ends, at the last origin of the route.
CanFetch(outcome, route) ==
    /\ pc = "robots"
    /\ fetched' = [fetched EXCEPT ![cur.url] = @ + 1]
    /\ undelayed' = IF delayed THEN undelayed ELSE undelayed + 1
    /\ delayed' = FALSE
    /\ robotsReads' = Retrieved(robotsReads, Origin(cur.url), route)
    /\ robots' = outcome
    /\ allowed' = IF can_fetch(outcome) THEN "yes" ELSE "no"
    /\ IF GateBlocks(can_fetch(outcome))
       THEN html' = "None" /\ pc' = "fetched" /\ target' = 0
       ELSE html' = html /\ pc' = "get" /\ target' = target
    /\ UNCHANGED <<params, visited, results, q, cur, fails, fetchEnd,
                   requested, content_type, hops, added, expanded,
                   staleLinks, enqueuedAt, pageOutcome, content>>

\* ---------------------------------------------------------- fetcher

\* urllib3 retries a response whose status is in status_forcelist, and a
\* request that got no response.
Retryable(status) == status = 0 \/ status \in status_forcelist

\* A retry budget that is one retry short.
RetryExhaustedEarly(k) == k >= max_retries

\* Retry(total=max_retries): the k-th retryable failure ends the request
\* once the retries are used up.
RetryExhausted(k) == k > max_retries

\* response.raise_for_status()
RaisesForStatus(status) == status >= 400

\* content_type = response.headers.get('content-type', '').lower()
\* if 'text/html' not in content_type: return None
IsHtml(ctype) == Contains(TextHtml, lower(ctype))

\* requests follows a redirect: a 3xx response with a Location header is
\* answered with a request to that URL (allow_redirects is the default of
\* session.get and requests.get).
Redirects(status, location) == status = 302 /\ location # 0

\* The Location of a redirect cannot be made a URL: the exception that
\* requests raises on it is no RequestException.
Unparsable(location) == location = BadLocation

\* One attempt of self.session.get(url, timeout=15) and, once the adapter
\* hands back a response or gives up, the rest of get_page_content.
\* text is response.text: an empty or a non-empty document.  A redirect
\* is followed inside session.get: the request goes on at the new URL with
\* a retry budget of its own (the adapter is called once per hop), with no
\* can_fetch and no sleep for the new URL.  A redirect with a Location
\* that cannot be parsed raises UnicodeDecodeError or ValueError, which
\* except RequestException does not catch: the call of get_page_content
\* is outside the try of crawl(), so that the exception leaves crawl().
GetAttempt(status, location, ctype, text) ==
    /\ pc = "get"
    /\ (Redirects(status, location) /\ ~Unparsable(location)) =>
            hops < MaxRedirects
    /\ requested' = TRUE
    /\ content_type' = IF \/ Retryable(status)
                          \/ Redirects(status, location)
                          \/ RaisesForStatus(status)
                       THEN content_type
                       ELSE lower(ctype)
    /\ IF Retryable(status)
       THEN /\ fails' = fails + 1
            /\ IF RetryExhausted(fails + 1)
               THEN /\ fetchEnd' = "exhausted"
                    /\ html' = "None"
                    /\ pc' = "fetched"
                    /\ hops' = 0
                    /\ target' = 0
               ELSE UNCHANGED <<fetchEnd, html, pc, hops, target>>
       ELSE IF Redirects(status, location) /\ Unparsable(location)
       THEN /\ pc' = "raised"
            /\ hops' = 0
            /\ target' = 0
            /\ UNCHANGED <<fails, fetchEnd, html>>
       ELSE IF Redirects(status, location)
       THEN /\ hops' = hops + 1
            /\ target' = location
            /\ fails' = 0
            /\ UNCHANGED <<fetchEnd, html, pc>>
       ELSE /\ pc' = "fetched"
            /\ hops' = 0
            /\ target' = 0
            /\ UNCHANGED fails
            /\ IF RaisesForStatus(status)
               THEN fetchEnd' = "http_error" /\ html' = "None"
               ELSE IF ~IsHtml(ctype)
               THEN fetchEnd' = "not_html" /\ html' = "None"
               ELSE fetchEnd' = "ok" /\ html' = text
    /\ UNCHANGED <<params, visited, results, q, cur, robots, allowed, delayed,
                   history, pageOutcome, content>>

\* The companion's get_page_content(url): requests.get, which follows
\* redirects; no gate, no retry adapter, no content-type test; any
\* exception gives None.  The first request of the call is the fetch call.
FullFetch(status, location, text) ==
    /\ pc = "fetch"
    /\ (Redirects(status, location) /\ ~Unparsable(location)) =>
            hops < MaxRedirects
    /\ IF hops = 0
       THEN /\ fetched' = [fetched EXCEPT ![cur.url] = @ + 1]
            /\ undelayed' = IF delayed THEN undelayed ELSE undelayed + 1
            /\ delayed' = FALSE
       ELSE UNCHANGED <<fetched, undelayed, delayed>>
    /\ requested' = TRUE
    /\ IF Redirects(status, location) /\ ~Unparsable(location)
       THEN /\ hops' = hops + 1
            /\ target' = location
            /\ UNCHANGED <<fetchEnd, html, pc>>
       ELSE /\ pc' = "fetched"
            /\ hops' = 0
            /\ target' = 0
            /\ IF \/ status = 0
                  \/ RaisesForStatus(status)
                  \/ Redirects(status, location)
               THEN fetchEnd' = "http_error" /\ html' = "None"
               ELSE fetchEnd' = "ok" /\ html' = text
    /\ UNCHANGED <<params, visited, results, q, cur, fails, robots, allowed,
                   content_type, added, robotsReads, expanded, staleLinks,
                   enqueuedAt, pageOutcome, content>>

\* A loop that puts the task of a page it could not get back in the queue.
NoPageRequeues ==
    /\ pc = "fetched"
    /\ html \in {"None", ""}
    /\ pc' = "loop"
    /\ q' = Append(q, cur)
    /\ TaskCleared
    /\ UNCHANGED <<params, visited, results, delayed, history, pageOutcome,
                   content>>

\* if not html: continue
NoPage ==
    /\ pc = "fetched"
    /\ html \in {"None", ""}
    /\ pc' = "loop"
    /\ TaskCleared
    /\ UNCHANGED <<params, visited, results, q, delayed, history, pageOutcome,
                   content>>

\* ------------------------------------------------- content and links

\* The depth test off by one.
CanFollowOffByOne(depth) == depth <= max_depth

\* if depth < max_depth
CanFollow(depth) == depth < max_depth

\* A cap that counts the pending tasks only.
QueueCapOkPendingOnly(qq) == Len(qq) < max_pages * 2

\* A cap whose comparison is off by one.
QueueCapOkOffByOne(qq) == Cardinality(visited) + Len(qq) <= max_pages * 2

\* len(visited) + q.qsize() < max_pages * 2
QueueCapOk(qq) == Cardinality(visited) + Len(qq) < max_pages * 2

\* state:     if link not in visited and <cap>: q.put((link, depth + 1))
\* companion: if link not in visited: q.put((link, depth + 1))
LinkAdmitted(link, qq) ==
    /\ link \notin visited
    /\ impl = "state" => QueueCapOk(qq)

\* A frontier used as a stack: the links are put in front of the queue.
RECURSIVE EnqueueLinksFront(_, _, _)
EnqueueLinksFront(ls, depth, qq) ==
    IF ls = <<>> THEN qq
    ELSE EnqueueLinksFront(Tail(ls), depth,
            IF LinkAdmitted(Head(ls), qq)
            THEN <<[url |-> Head(ls), depth |-> depth + 1]>> \o qq
            ELSE qq)

\* Links put in the queue at the depth of the page they were found on.
RECURSIVE EnqueueLinksSameDepth(_, _, _)
EnqueueLinksSameDepth(ls, depth, qq) ==
    IF ls = <<>> THEN qq
    ELSE EnqueueLinksSameDepth(Tail(ls), depth,
            IF LinkAdmitted(Head(ls), qq)
            THEN Append(qq, [url |-> Head(ls), depth |-> depth])
            ELSE qq)

\* for link in links: ...   (links is a set; ls is its iteration order)
RECURSIVE EnqueueLinks(_, _, _)
EnqueueLinks(ls, depth, qq) ==
    IF ls = <<>> THEN qq
    ELSE EnqueueLinks(Tail(ls), depth,
            IF LinkAdmitted(Head(ls), qq)
            THEN Append(qq, [url |-> Head(ls), depth |-> depth + 1])
            ELSE qq)

\* The tasks added to the queue by one link loop whose URL is in visited.
StaleIn(before, after) ==
    Cardinality({i \in (Len(before) + 1)..Len(after) : after[i].url \in visited})

\* result = {'url': url, ..., 'depth': depth, ...}
Result(t) == [url |-> t.url, depth |-> t.depth]

\* The state crawler's processing of a fetched page.  Everything after the
\* fetch runs inside try/except Exception: soup.title.string.strip() raises
\* AttributeError on a title without a string, and the except clause
\* discards the task.  extract_links catches its own exceptions and returns
\* an empty set.
Process(page) ==
    /\ pc = "fetched"
    /\ html = "page"
    /\ impl = "state"
    /\ pc' = "loop"
    /\ TaskCleared
    /\ admitted' = page.relevant
    /\ IF ~page.relevant \/ page.title = "blank"
       THEN UNCHANGED <<results, q, expanded, links>>
       ELSE /\ results' = Append(results, Result(cur))
            /\ IF CanFollow(cur.depth)
               THEN /\ expanded' = expanded \cup {cur.url}
                    /\ links' = Range(page.order)
                    /\ q' = EnqueueLinks(page.order, cur.depth, q)
               ELSE UNCHANGED <<q, expanded, links>>
    /\ staleLinks' = staleLinks + StaleIn(q, q')
    /\ enqueuedAt' = LeastDepths(enqueuedAt, SubSeq(q', Len(q) + 1, Len(q')))
    /\ UNCHANGED <<params, visited, delayed, undelayed, added, fetched,
                   robotsReads, content>>

\* What makes the companion's processing raise: nothing is caught there.
\* The title is read before the keyword test, and urljoin raises ValueError
\* inside extract_links on a malformed href.
FullRaises(page) ==
    \/ page.title = "blank"
    \/ page.relevant /\ CanFollow(cur.depth) /\ page.linkErr

\* The companion's processing of a fetched page that raises: the exception
\* leaves crawl().
FullProcessRaise(page) ==
    /\ pc = "fetched"
    /\ html = "page"
    /\ impl = "full"
    /\ FullRaises(page)
    /\ pc' = "raised"
    /\ results' = IF page.title = "blank" THEN results
                  ELSE Append(results, Result(cur))
    /\ UNCHANGED <<params, visited, q, task, delayed, history, pageOutcome,
                   content>>

\* The companion's processing of a fetched page that does not raise.
FullProcess(page) ==
    /\ pc = "fetched"
    /\ html = "page"
    /\ impl = "full"
    /\ ~FullRaises(page)
    /\ pc' = "loop"
    /\ TaskCleared
    /\ admitted' = page.relevant
    /\ IF ~page.relevant
       THEN UNCHANGED <<results, q, expanded, links>>
       ELSE /\ results' = Append(results, Result(cur))
            /\ IF CanFollow(cur.depth)
               THEN /\ expanded' = expanded \cup {cur.url}
                    /\ links' = Range(page.order)
                    /\ q' = EnqueueLinks(page.order, cur.depth, q)
               ELSE UNCHANGED <<q, expanded, links>>
    /\ staleLinks' = staleLinks + StaleIn(q, q')
    /\ enqueuedAt' = LeastDepths(enqueuedAt, SubSeq(q', Len(q) + 1, Len(q')))
    /\ UNCHANGED <<params, visited, delayed, undelayed, added, fetched,
                   robotsReads, content>>

\* ------------------------------------------------------------ caller

\* A caller that takes every list of results for a harvest.
NoResultsNever(res) == FALSE

\* main(): if not results
NoResults(res) == res = <<>>

\* main() of the state crawler after crawl() has returned: with no results
\* it logs "No state autism employment programs found" and returns;
\* otherwise it saves the results.
Report ==
    /\ pc = "done"
    /\ impl = "state"
    /\ pc' = IF NoResults(results) THEN "no_results" ELSE "saved"
    /\ UNCHANGED <<params, visited, results, q, task, delayed, history,
                   pageOutcome, content>>

\* ------------------------------------------------------ specification

\* The guards on pc are repeated in front of the quantifiers so that the
\* inputs are enumerated only where the action can be taken.
Next ==
    \/ /\ pc = "idle"
       /\ \E seeds \in SeedLists, mp \in PageBudgets, md \in DepthLimits :
             Crawl(seeds, mp, md)
    \/ LoopExit
    \/ Discard
    \/ Visit
    \/ Sleep
    \/ /\ pc = "robots"
       /\ \E outcome \in RobotsOutcomes, route \in RobotsRoutes :
             CanFetch(outcome, route)
    \/ /\ pc = "get"
       /\ \E r \in Responses :
             GetAttempt(r.status, r.location, r.ctype, r.text)
    \/ /\ pc = "fetch"
       /\ \E r \in Responses : FullFetch(r.status, r.location, r.text)
    \/ NoPage
    \/ /\ pc = "fetched" /\ html = "page" /\ impl = "state"
       /\ \E page \in Pages : Process(page)
    \/ /\ pc = "fetched" /\ html = "page" /\ impl = "full"
       /\ \E page \in Pages : FullProcessRaise(page)
    \/ /\ pc = "fetched" /\ html = "page" /\ impl = "full"
       /\ \E page \in Pages : FullProcess(page)
    \/ Report

Spec == Init /\ [][Next]_vars

\* ============================================================ content
\* The content functions work on text, computed character by character
\* with the string operators above.

\* US_STATES = ['alabama', 'alaska', ..., 'wyoming']
US_STATES ==
  <<
    <<"a", "l", "a", "b", "a", "m", "a">>, <<"a", "l", "a", "s", "k", "a">>,
    <<"a", "r", "i", "z", "o", "n", "a">>,
    <<"a", "r", "k", "a", "n", "s", "a", "s">>,
    <<"c", "a", "l", "i", "f", "o", "r", "n", "i", "a">>,
    <<"c", "o", "l", "o", "r", "a", "d", "o">>,
    <<"c", "o", "n", "n", "e", "c", "t", "i", "c", "u", "t">>,
    <<"d", "e", "l", "a", "w", "a", "r", "e">>,
    <<"f", "l", "o", "r", "i", "d", "a">>,
    <<"g", "e", "o", "r", "g", "i", "a">>, <<"h", "a", "w", "a", "i", "i">>,
    <<"i", "d", "a", "h", "o">>, <<"i", "l", "l", "i", "n", "o", "i", "s">>,
    <<"i", "n", "d", "i", "a", "n", "a">>, <<"i", "o", "w", "a">>,
    <<"k", "a", "n", "s", "a", "s">>,
    <<"k", "e", "n", "t", "u", "c", "k", "y">>,
    <<"l", "o", "u", "i", "s", "i", "a", "n", "a">>,
    <<"m", "a", "i", "n", "e">>, <<"m", "a", "r", "y", "l", "a", "n", "d">>,
    <<"m", "a", "s", "s", "a", "c", "h", "u", "s", "e", "t", "t", "s">>,
    <<"m", "i", "c", "h", "i", "g", "a", "n">>,
    <<"m", "i", "n", "n", "e", "s", "o", "t", "a">>,
    <<"m", "i", "s", "s", "i", "s", "s", "i", "p", "p", "i">>,
    <<"m", "i", "s", "s", "o", "u", "r", "i">>,
    <<"m", "o", "n", "t", "a", "n", "a">>,
    <<"n", "e", "b", "r", "a", "s", "k", "a">>,
    <<"n", "e", "v", "a", "d", "a">>,
    <<"n", "e", "w", " ", "h", "a", "m", "p", "s", "h", "i", "r", "e">>,
    <<"n", "e", "w", " ", "j", "e", "r", "s", "e", "y">>,
    <<"n", "e", "w", " ", "m", "e", "x", "i", "c", "o">>,
    <<"n", "e", "w", " ", "y", "o", "r", "k">>,
    <<"n", "o", "r", "t", "h", " ", "c", "a", "r", "o", "l", "i", "n", "a">>,
    <<"n", "o", "r", "t", "h", " ", "d", "a", "k", "o", "t", "a">>,
    <<"o", "h", "i", "o">>, <<"o", "k", "l", "a", "h", "o", "m", "a">>,
    <<"o", "r", "e", "g", "o", "n">>,
    <<"p", "e", "n", "n", "s", "y", "l", "v", "a", "n", "i", "a">>,
    <<"r", "h", "o", "d", "e", " ", "i", "s", "l", "a", "n", "d">>,
    <<"s", "o", "u", "t", "h", " ", "c", "a", "r", "o", "l", "i", "n", "a">>,
    <<"s", "o", "u", "t", "h", " ", "d", "a", "k", "o", "t", "a">>,
    <<"t", "e", "n", "n", "e", "s", "s", "e", "e">>,
    <<"t", "e", "x", "a", "s">>, <<"u", "t", "a", "h">>,
    <<"v", "e", "r", "m", "o", "n", "t">>,
    <<"v", "i", "r", "g", "i", "n", "i", "a">>,
    <<"w", "a", "s", "h", "i", "n", "g", "t", "o", "n">>,
    <<"w", "e", "s", "t", " ", "v", "i", "r", "g", "i", "n", "i", "a">>,
    <<"w", "i", "s", "c", "o", "n", "s", "i", "n">>,
    <<"w", "y", "o", "m", "i", "n", "g">>
  >>

\* STATE_ABBREVS = ['AL', 'AK', ..., 'WY']
STATE_ABBREVS ==
  <<
    <<"A", "L">>, <<"A", "K">>, <<"A", "Z">>, <<"A", "R">>, <<"C", "A">>,
    <<"C", "O">>, <<"C", "T">>, <<"D", "E">>, <<"F", "L">>, <<"G", "A">>,
    <<"H", "I">>, <<"I", "D">>, <<"I", "L">>, <<"I", "N">>, <<"I", "A">>,
    <<"K", "S">>, <<"K", "Y">>, <<"L", "A">>, <<"M", "E">>, <<"M", "D">>,
    <<"M", "A">>, <<"M", "I">>, <<"M", "N">>, <<"M", "S">>, <<"M", "O">>,
    <<"M", "T">>, <<"N", "E">>, <<"N", "V">>, <<"N", "H">>, <<"N", "J">>,
    <<"N", "M">>, <<"N", "Y">>, <<"N", "C">>, <<"N", "D">>, <<"O", "H">>,
    <<"O", "K">>, <<"O", "R">>, <<"P", "A">>, <<"R", "I">>, <<"S", "C">>,
    <<"S", "D">>, <<"T", "N">>, <<"T", "X">>, <<"U", "T">>, <<"V", "T">>,
    <<"V", "A">>, <<"W", "A">>, <<"W", "V">>, <<"W", "I">>, <<"W", "Y">>
  >>

\* autism_terms = [...]: any(term in ... for term in autism_terms)
autism_terms ==
  {
    <<"a", "u", "t", "i", "s", "m">>,
    <<"a", "u", "t", "i", "s", "t", "i", "c">>, <<"a", "s", "d">>,
    <<"a", "s", "p", "e", "r", "g", "e", "r">>,
    <<"d", "e", "v", "e", "l", "o", "p", "m", "e", "n", "t", "a", "l", " ", "d", "i", "s", "a", "b", "i", "l", "i", "t", "y">>
  }

\* employment_terms = [...]: any(term in ... for term in employment_terms)
employment_terms ==
  {
    <<"e", "m", "p", "l", "o", "y", "m", "e", "n", "t">>, <<"j", "o", "b">>,
    <<"w", "o", "r", "k">>, <<"c", "a", "r", "e", "e", "r">>,
    <<"v", "o", "c", "a", "t", "i", "o", "n", "a", "l">>,
    <<"w", "o", "r", "k", "p", "l", "a", "c", "e">>,
    <<"h", "i", "r", "i", "n", "g">>,
    <<"t", "r", "a", "i", "n", "i", "n", "g">>,
    <<"p", "l", "a", "c", "e", "m", "e", "n", "t">>,
    <<"s", "u", "p", "p", "o", "r", "t", "e", "d", " ", "e", "m", "p", "l", "o", "y", "m", "e", "n", "t">>
  }

\* state_indicators = [...]: any(term in ... for term in state_indicators)
state_indicators ==
  {
    <<"s", "t", "a", "t", "e">>,
    <<"g", "o", "v", "e", "r", "n", "m", "e", "n", "t">>,
    <<"d", "e", "p", "a", "r", "t", "m", "e", "n", "t">>,
    <<"d", "i", "v", "i", "s", "i", "o", "n">>,
    <<"a", "g", "e", "n", "c", "y">>, <<"p", "u", "b", "l", "i", "c">>,
    <<"g", "o", "v">>, <<".", "g", "o", "v">>,
    <<"r", "e", "h", "a", "b", "i", "l", "i", "t", "a", "t", "i", "o", "n">>,
    <<"s", "e", "r", "v", "i", "c", "e", "s">>
  }

\* program_indicators = [...]: any(term in ... for term in program_indicators)
program_indicators ==
  {
    <<"p", "r", "o", "g", "r", "a", "m">>,
    <<"s", "e", "r", "v", "i", "c", "e">>,
    <<"i", "n", "i", "t", "i", "a", "t", "i", "v", "e">>,
    <<"s", "u", "p", "p", "o", "r", "t">>,
    <<"a", "s", "s", "i", "s", "t", "a", "n", "c", "e">>,
    <<"h", "e", "l", "p">>, <<"r", "e", "s", "o", "u", "r", "c", "e">>,
    <<"o", "p", "p", "o", "r", "t", "u", "n", "i", "t", "y">>
  }

\* ------------------------------------------------- relevance rubric

\* any(term in s for term in terms)
AnyIn(terms, s) == \E term \in terms : Contains(term, s)

\* has_autism = any(term in text_lower for term in autism_terms)
has_autism(text_lower) == AnyIn(autism_terms, text_lower)

\* has_employment = any(term in text_lower for term in employment_terms)
has_employment(text_lower) == AnyIn(employment_terms, text_lower)

\* has_state_indicator = any(indicator in text_lower or
\*                           indicator in url_lower for ...)
has_state_indicator(text_lower, url_lower) ==
    AnyIn(state_indicators, text_lower) \/ AnyIn(state_indicators, url_lower)

\* has_program = any(indicator in text_lower for ...)
has_program(text_lower) == AnyIn(program_indicators, text_lower)

\* has_state_name = (any(state in url_lower for state in US_STATES) or
\*                   any(state in text_lower for state in US_STATES) or
\*                   any(abbrev.lower() in url_lower
\*                       for abbrev in STATE_ABBREVS))
\* The abbreviation is looked for as a plain substring of the URL.
has_state_name(text_lower, url_lower) ==
    \/ AnyIn(Range(US_STATES), url_lower)
    \/ AnyIn(Range(US_STATES), text_lower)
    \/ \E i \in DOMAIN STATE_ABBREVS :
          Contains(lower(STATE_ABBREVS[i]), url_lower)

\* A boolean as sum() counts it.
Count(b) == IF b THEN 1 ELSE 0

\* relevance_score = sum([has_autism, has_employment, has_state_indicator,
\*                        has_program, has_state_name])
relevance_score(text_lower, url_lower) ==
    Count(has_autism(text_lower)) + Count(has_employment(text_lower))
        + Count(has_state_indicator(text_lower, url_lower))
        + Count(has_program(text_lower))
        + Count(has_state_name(text_lower, url_lower))

\* A rubric that asks for four criteria.
AdmitsAtFour(score) == score >= 4

\* return relevance_score >= 3
Admits(score) == score >= 3

\* is_state_autism_employment_content(text, url)
is_state_autism_employment_content(text, url) ==
    Admits(relevance_score(lower(text), lower(url)))

\* ------------------------------------------------- region extractor

\* f"/{abbrev.lower()}/" in url_lower or f".{abbrev.lower()}." in url_lower
abbrev_in_url(abbrev, url_lower) ==
    \/ Contains(<<"/">> \o lower(abbrev) \o <<"/">>, url_lower)
    \/ Contains(<<".">> \o lower(abbrev) \o <<".">>, url_lower)

\* The alternatives of state_pattern, in the order the pattern lists them:
\* '|'.join(US_STATES + [s.lower() for s in STATE_ABBREVS])
state_pattern ==
    US_STATES \o [i \in DOMAIN STATE_ABBREVS |-> lower(STATE_ABBREVS[i])]

\* The alternative \b(...)\b matches with at s[i]: the first one in the
\* order of the pattern that is there and ends at a word boundary; 0 when
\* there is none.
StateAt(s, i) ==
    LET ok == {a \in DOMAIN state_pattern :
                  /\ MatchAt(state_pattern[a], s, i)
                  /\ WordBoundary(s, i + Len(state_pattern[a]))}
    IN  IF WordBoundary(s, i) /\ ok # {} THEN Least(ok) ELSE 0

\* re.findall(state_pattern, text_lower), scanning from s[i]
RECURSIVE findall_states(_, _)
findall_states(s, i) ==
    IF i > Len(s) THEN <<>>
    ELSE IF StateAt(s, i) = 0 THEN findall_states(s, i + 1)
    ELSE <<state_pattern[StateAt(s, i)]>>
            \o findall_states(s, i + Len(state_pattern[StateAt(s, i)]))

\* The most frequent match, the one that occurred last among equally
\* frequent ones.
most_common_last(matches) ==
    LET n(m) == Cardinality({i \in DOMAIN matches : matches[i] = m})
    IN  matches[Greatest({i \in DOMAIN matches :
                             \A j \in DOMAIN matches :
                                 n(matches[j]) <= n(matches[i])})]

\* Counter(matches).most_common(1)[0][0]: the most frequent match, the one
\* that occurred first among equally frequent ones.
most_common(matches) ==
    LET n(m) == Cardinality({i \in DOMAIN matches : matches[i] = m})
    IN  matches[Least({i \in DOMAIN matches :
                          \A j \in DOMAIN matches :
                              n(matches[j]) <= n(matches[i])})]

\* extract_state_from_content(text, url)
extract_state_from_content(text, url) ==
    LET text_lower == lower(text)
        url_lower == lower(url)
        names == {i \in DOMAIN US_STATES : Contains(US_STATES[i], url_lower)}
        abbrevs == {i \in DOMAIN STATE_ABBREVS :
                       abbrev_in_url(STATE_ABBREVS[i], url_lower)}
        matches == findall_states(text_lower, 1)
    IN  IF names # {} THEN title(US_STATES[Least(names)])
        ELSE IF abbrevs # {} THEN STATE_ABBREVS[Least(abbrevs)]
        ELSE IF matches # <<>> THEN title(most_common(matches))
        ELSE <<"U", "n", "k", "n", "o", "w", "n">>

\* --------------------------------------------------- contact field

\* [A-Za-z0-9._%+-]
EmailLocalChars == Letters \cup Digits \cup {".", "_", "%", "+", "-"}

\* [A-Za-z0-9.-]
EmailDomainChars == Letters \cup Digits \cup {".", "-"}

\* [A-Z|a-z]
EmailTldChars == Letters \cup {"|"}

\* Where a match of \.[A-Z|a-z]{2,}\b that starts at the dot s[d] can end:
\* after two or more characters of the class, at a word boundary.
TldEnds(s, d) ==
    {p \in (d + 2)..RunEnd(s, d + 1, EmailTldChars) : WordBoundary(s, p + 1)}

\* The index at which the match of email_pattern that starts at s[i] ends;
\* 0 when there is none.  Both + are greedy: the local part runs up to the
\* "@", the domain up to the last dot after which the rest can match.
EmailEnd(s, i) ==
    LET at == RunEnd(s, i, EmailLocalChars) + 1
        last == RunEnd(s, at + 1, EmailDomainChars)
        dots == {d \in (at + 2)..last : s[d] = "." /\ TldEnds(s, d) # {}}
    IN  IF /\ WordBoundary(s, i)
           /\ at > i
           /\ at \in DOMAIN s
           /\ s[at] = "@"
           /\ dots # {}
        THEN Greatest(TldEnds(s, Greatest(dots)))
        ELSE 0

\* [-.]? followed by n digits, from s[i]: the index after them, 0 when they
\* are not there.
SepDigits(s, i, n) ==
    LET j == IF i \in DOMAIN s /\ s[i] \in {"-", "."} THEN i + 1 ELSE i
    IN  IF i > 0 /\ j + n - 1 <= Len(s)
           /\ \A k \in j..(j + n - 1) : s[k] \in Digits
        THEN j + n
        ELSE 0

\* The index at which the match of phone_pattern that starts at s[i] ends;
\* 0 when there is none.
PhoneEnd(s, i) ==
    LET a == IF s[i] \in Digits THEN SepDigits(s, i, 3) ELSE 0
        b == SepDigits(s, a, 3)
        c == SepDigits(s, b, 4)
    IN  IF WordBoundary(s, i) /\ c # 0 /\ WordBoundary(s, c)
        THEN c - 1
        ELSE 0

\* emails = re.findall(email_pattern, text), cut to its first element: the
\* leftmost match, as a list of at most one string.
first_email(text) ==
    LET starts == {i \in DOMAIN text : EmailEnd(text, i) # 0}
    IN  IF starts = {} THEN <<>>
        ELSE <<SubSeq(text, Least(starts), EmailEnd(text, Least(starts)))>>

\* phones = re.findall(phone_pattern, text), cut to its first element: the
\* leftmost match, as a list of at most one string.
first_phone(text) ==
    LET starts == {i \in DOMAIN text : PhoneEnd(text, i) # 0}
    IN  IF starts = {} THEN <<>>
        ELSE <<SubSeq(text, Least(starts), PhoneEnd(text, Least(starts)))>>

\* The parts with the phone in front of the email.
contact_parts_phone_first(emails, phones) ==
    (IF phones = <<>> THEN <<>>
     ELSE <<<<"P", "h", "o", "n", "e", ":", " ">> \o phones[1]>>)
    \o (IF emails = <<>> THEN <<>>
        ELSE <<<<"E", "m", "a", "i", "l", ":", " ">> \o emails[1]>>)

\* if emails: contact_parts.append(f"Email: {emails[0]}")
\* if phones: contact_parts.append(f"Phone: {phones[0]}")
contact_parts(emails, phones) ==
    (IF emails = <<>> THEN <<>>
     ELSE <<<<"E", "m", "a", "i", "l", ":", " ">> \o emails[1]>>)
    \o (IF phones = <<>> THEN <<>>
        ELSE <<<<"P", "h", "o", "n", "e", ":", " ">> \o phones[1]>>)

\* details['contact_info'] = "; ".join(contact_parts)
extract_contact_info(text) ==
    join(<<";", " ">>, contact_parts(first_email(text), first_phone(text)))

\* ------------------------------------------------------ the inputs

\* The most tokens a page text is made of.
MaxWords == 5

\* "autism employment program department Texas": one word for each of the
\* five criteria of the rubric.
RubricWords ==
  <<
    <<"a", "u", "t", "i", "s", "m">>,
    <<"e", "m", "p", "l", "o", "y", "m", "e", "n", "t">>,
    <<"p", "r", "o", "g", "r", "a", "m">>,
    <<"d", "e", "p", "a", "r", "t", "m", "e", "n", "t">>,
    <<"T", "e", "x", "a", "s">>
  >>

\* "Contact: jane@example.org or 555-123-4567", and a second address and a
\* second number behind them.
ContactWords ==
  <<
    <<"C", "o", "n", "t", "a", "c", "t", ":">>,
    <<"j", "a", "n", "e", "@", "e", "x", "a", "m", "p", "l", "e", ".", "o",
      "r", "g">>,
    <<"o", "r">>,
    <<"5", "5", "5", "-", "1", "2", "3", "-", "4", "5", "6", "7">>,
    <<"b", "o", "b", "@", "s", "t", "a", "t", "e", ".", "t", "x", ".", "u",
      "s">>,
    <<"5", "5", "5", ".", "9", "8", "7", ".", "6", "5", "4", "3">>
  >>

\* "Texas Ohio ohio TX texas": names and an abbreviation of two states, in
\* an order that is neither the one of US_STATES nor the alphabet's.
RegionWords ==
  <<
    <<"T", "e", "x", "a", "s">>,
    <<"O", "h", "i", "o">>,
    <<"o", "h", "i", "o">>,
    <<"T", "X">>,
    <<"t", "e", "x", "a", "s">>
  >>

Phrases == {RubricWords, ContactWords, RegionWords}

\* The tokens of phrase p at the positions S, in the order of the phrase.
RECURSIVE Pick(_, _, _)
Pick(p, S, i) ==
    IF i > Len(p) THEN <<>>
    ELSE (IF i \in S THEN <<p[i]>> ELSE <<>>) \o Pick(p, S, i + 1)

\* Page URLs: one with no region in it, one with the letters of an
\* abbreviation inside a word ("co" in "com"), one with an abbreviation as
\* a domain label, one with the name of a state.
PageUrls ==
  {
    <<"h", "t", "t", "p", ":", "/", "/", "x", ".", "t", "e", "s", "t", "/">>,
    <<"h", "t", "t", "p", "s", ":", "/", "/", "e", "x", "a", "m", "p", "l",
      "e", ".", "c", "o", "m", "/", "j", "o", "b", "s">>,
    <<"h", "t", "t", "p", "s", ":", "/", "/", "w", "w", "w", ".", "d", "o",
      "r", ".", "c", "a", ".", "g", "o", "v", "/", "s", "e", "r", "v", "i",
      "c", "e", "s">>,
    <<"h", "t", "t", "p", "s", ":", "/", "/", "w", "w", "w", ".", "t", "w",
      "c", ".", "t", "e", "x", "a", "s", ".", "g", "o", "v", "/">>
  }

\* The text and the URL of a page are given; no function has been applied.
ContentInit ==
    /\ Constructed
    /\ impl = "state"
    /\ max_retries = 0
    /\ \E p \in Phrases : \E S \in SUBSET DOMAIN p :
          /\ Cardinality(S) <= MaxWords
          /\ in_words = Pick(p, S, 1)
          /\ in_text = join(<<" ">>, Pick(p, S, 1))
    /\ in_url \in PageUrls
    /\ applied = {}
    /\ is_relevant = FALSE
    /\ state = <<>>
    /\ contact_info = <<>>

\* crawl(): if not self.is_state_autism_employment_content(text, url)
ApplyRelevance ==
    /\ in_url # <<>>
    /\ "is_state_autism_employment_content" \notin applied
    /\ applied' = applied \cup {"is_state_autism_employment_content"}
    /\ is_relevant' = is_state_autism_employment_content(in_text, in_url)
    /\ UNCHANGED <<session, in_words, in_text, in_url, state, contact_info>>

\* crawl(): state = self.extract_state_from_content(text, url)
ApplyExtractState ==
    /\ in_url # <<>>
    /\ "extract_state_from_content" \notin applied
    /\ applied' = applied \cup {"extract_state_from_content"}
    /\ state' = extract_state_from_content(in_text, in_url)
    /\ UNCHANGED <<session, in_words, in_text, in_url, is_relevant,
                   contact_info>>

\* crawl(): program_details = self.extract_program_details(soup, text)
ApplyExtractDetails ==
    /\ in_url # <<>>
    /\ "extract_program_details" \notin applied
    /\ applied' = applied \cup {"extract_program_details"}
    /\ contact_info' = extract_contact_info(in_text)
    /\ UNCHANGED <<session, in_words, in_text, in_url, is_relevant, state>>

ContentNext == ApplyRelevance \/ ApplyExtractState \/ ApplyExtractDetails

\* The content functions applied to the pages drawn by ContentInit.
ContentSpec == ContentInit /\ [][ContentNext]_vars

\* ------------------------------------------------------------ claims

Max(a, b) == IF a >= b THEN a ELSE b

Load == Cardinality(visited) + Len(q)

ResultUrls == {results[i].url : i \in DOMAIN results}

\* C1, as stated: in every state of a session of the state crawler,
\* including the one right after the seeds are loaded, |visited| plus the
\* number of pending tasks is at most 2 * max_pages.
C1_LoadWithinTwiceBudget ==
    (impl = "state" /\ pc # "idle") => Load <= 2 * max_pages

\* C1, amended: |visited| plus the number of pending tasks never exceeds
\* the larger of 2 * max_pages and the number of seeds; the seeds are
\* loaded without a cap and only the links are capped.
C1_LoadWithinBudgetOrSeeds ==
    (impl = "state" /\ pc # "idle") =>
        Load <= Max(2 * max_pages, Len(start_urls))

\* More seeds than 2 * max_pages, a page fetched and emitted, and the load
\* still above 2 * max_pages.
C1_Witness ==
    /\ impl = "state"
    /\ max_pages >= 1
    /\ Len(start_urls) > 2 * max_pages
    /\ Len(results) >= 1
    /\ Load > 2 * max_pages

\* C2, as stated: robots.txt is retrieved at most once per origin in a
\* session.
C2_RobotsOncePerOrigin == \A o \in Origins : robotsReads[o] <= 1

\* C3: no URL is added to visited twice and none is fetched twice, whatever
\* became of its first task; a fetch happens only for a URL just added, and
\* no link is put in the queue while it is in visited.
C3_NoRevisit ==
    /\ staleLinks = 0
    /\ \A u \in URLs :
          /\ added[u] <= 1
          /\ fetched[u] <= added[u]
          /\ (u \in visited) = (added[u] = 1)

\* A second task for a URL that was fetched before and gave no result is
\* at the head of the queue, and the loop is about to take it.
C3_Witness ==
    /\ pc = "loop"
    /\ LoopCond
    /\ Head(q).url \in visited
    /\ fetched[Head(q).url] = 1
    /\ Head(q).url \notin ResultUrls

\* C4: |visited| <= max_pages in every state, the one after the loop
\* included.
C4_VisitedWithinBudget == Cardinality(visited) <= max_pages

\* The loop has ended on the budget with tasks still pending.
C4_Witness ==
    /\ pc = "done"
    /\ max_pages >= 1
    /\ Cardinality(visited) = max_pages
    /\ q # <<>>

\* C5, as stated: every task in the queue and every result has
\* depth <= max_depth, whatever max_depth crawl() was given.
C5_DepthBoundAnyLimit ==
    /\ \A i \in DOMAIN q : q[i].depth <= max_depth
    /\ \A i \in DOMAIN results : results[i].depth <= max_depth

\* C5, amended: every result has depth <= max_depth, and so has every task
\* in the queue that is not a seed; the seeds are put in the queue at depth
\* 0 whatever max_depth is, so that with a negative max_depth they are in
\* the queue above the limit until the loop discards them.
C5_DepthBound ==
    /\ \A i \in DOMAIN q : q[i].depth = 0 \/ q[i].depth <= max_depth
    /\ \A i \in DOMAIN results : results[i].depth <= max_depth

\* A page found through a link was emitted at the depth limit while a
\* task put in the queue at the limit is pending.
C5_Witness ==
    /\ max_depth >= 1
    /\ \E i \in DOMAIN results : results[i].depth = max_depth
    /\ \E i \in DOMAIN q : q[i].depth = max_depth

\* C6, as stated: in the state crawler a page request is sent to a URL
\* only after can_fetch answered true for that same URL; after a false
\* answer get_page_content returns None with no page request, and the step
\* that follows adds no result and no task.
C6_GateBeforeRequest ==
    [][/\ (impl = "state" /\ requested') => allowed' = "yes"
       /\ (impl = "state" /\ pc = "get") => target = cur.url
       /\ allowed = "no" =>
             /\ html = "None"
             /\ ~requested
             /\ ~requested'
             /\ results' = results
             /\ q' = q]_vars

\* C7, as stated: when the retrieval or the parsing of robots.txt ends in
\* an error, can_fetch answers true and get_page_content goes on to request
\* the page; the failure never makes it return without the request.
C7_FailOpen ==
    robots \in RobotsFailures =>
        /\ allowed = "yes"
        /\ pc = "fetched" => requested

\* C8, as stated: every fetch call of a session has a delay step before
\* it, after the previous fetch call.
C8_DelayBeforeEveryFetch == undelayed = 0

\* C9: the page request gives up only on the failure after max_retries
\* retries, and then yields None; up to max_retries retryable failures
\* leave it alive, so that a 200 after them is the result of the fetch.
\* The failures are those of the URL the request is sent to: a redirect
\* starts the count again.
C9_RetryCeiling ==
    impl = "state" =>
        /\ pc = "get" => fails <= max_retries
        /\ fetchEnd = "exhausted" =>
              (fails = max_retries + 1 /\ html = "None" /\ pc = "fetched")
        /\ fetchEnd = "ok" => (fails <= max_retries /\ html # "None")

\* Two retryable failures, then a 200 with a page.
C9_Witness ==
    /\ impl = "state"
    /\ fetchEnd = "ok"
    /\ fails = 2
    /\ html = "page"

\* C10, as stated: no exception raised while a task is processed leaves
\* crawl().
C10_NoErrorEscapes == pc # "raised"

\* C11, as stated: in the state crawler every page that the relevance test
\* admits yields a result record, whichever of its elements are missing;
\* the iteration is never given up because of a missing element.
C11_MissingElementStillEmits ==
    [][(impl = "state" /\ pc = "fetched" /\ admitted') =>
            results' = Append(results, Result(cur))]_vars

RelevanceApplied == "is_state_autism_employment_content" \in applied

\* The criteria of the rubric, numbered as the code sums them, that hold
\* for the page in hand.
Criteria ==
    LET t == lower(in_text)
        u == lower(in_url)
    IN  (IF has_autism(t) THEN {1} ELSE {})
        \cup (IF has_employment(t) THEN {2} ELSE {})
        \cup (IF has_state_indicator(t, u) THEN {3} ELSE {})
        \cup (IF has_program(t) THEN {4} ELSE {})
        \cup (IF has_state_name(t, u) THEN {5} ELSE {})

\* C12: the rubric admits a page if and only if at least 3 of its 5
\* criteria hold; the text "autism employment program department Texas"
\* meets all five and is admitted whatever the URL.
C12_AdmitsAtThree ==
    RelevanceApplied =>
        LET met == Cardinality(Criteria)
        IN  /\ is_relevant <=> met >= 3
            /\ in_words = RubricWords => (met = 5 /\ is_relevant)

\* A page that meets exactly three criteria, the first two not among them,
\* was admitted.
C12_Witness ==
    /\ RelevanceApplied
    /\ Criteria = {3, 4, 5}
    /\ is_relevant

\* Criterion 5 with the abbreviation counted only as a path or domain
\* segment of the URL: the name of a state in the URL or the text, or
\* "/xx/" or ".xx." in the URL.
RegionDelimited ==
    LET t == lower(in_text)
        u == lower(in_url)
    IN  \/ AnyIn(Range(US_STATES), u)
        \/ AnyIn(Range(US_STATES), t)
        \/ \E i \in DOMAIN STATE_ABBREVS : abbrev_in_url(STATE_ABBREVS[i], u)

\* C13, as stated: the rubric counts criterion 5 only for a region name or
\* a delimited abbreviation, so a page is admitted if and only if three of
\* the criteria hold with criterion 5 taken that way.
C13_AbbrevOnlyAsSegment ==
    RelevanceApplied =>
        (is_relevant <=>
            Cardinality((Criteria \ {5})
                \cup (IF RegionDelimited THEN {5} ELSE {})) >= 3)

DorUrl ==
    <<"h", "t", "t", "p", "s", ":", "/", "/", "w", "w", "w", ".", "d", "o",
      "r", ".", "c", "a", ".", "g", "o", "v", "/", "s", "e", "r", "v", "i",
      "c", "e", "s">>

\* C14, as stated: for https://www.dor.ca.gov/services the region extractor
\* returns "California", whatever the text.
C14_DorUrlIsCalifornia ==
    ("extract_state_from_content" \in applied /\ in_url = DorUrl) =>
        state = <<"C", "a", "l", "i", "f", "o", "r", "n", "i", "a">>

IsPrefix(s, t) == Len(s) <= Len(t) /\ SubSeq(t, 1, Len(s)) = s

\* The seeds not yet dequeued, in the order supplied, are at the front of
\* the queue and every task behind them is a discovered link; depths never
\* decrease along the queue, from the task in hand to the queue, or along
\* the results.
FifoOrdered ==
    pc # "idle" =>
        /\ \E k \in 0..Len(start_urls) :
              /\ IsPrefix(SubSeq(SeedTasks(start_urls), k + 1,
                                 Len(start_urls)), q)
              /\ \A i \in (Len(start_urls) - k + 1)..Len(q) :
                    q[i].depth >= 1
        /\ \A i, j \in DOMAIN q : i <= j => q[i].depth <= q[j].depth
        /\ \A i \in DOMAIN q :
              /\ cur.depth <= q[i].depth
              /\ results # <<>> => results[Len(results)].depth <= q[i].depth
        /\ \A i, j \in DOMAIN results :
              i <= j => results[i].depth <= results[j].depth
        /\ (results # <<>> /\ cur # NoTask) =>
              results[Len(results)].depth <= cur.depth

\* A step takes the task at the head of the queue, or leaves the queue
\* alone, or adds tasks at its tail; a result is for the task in hand.
FifoStep ==
    pc # "idle" =>
        /\ \/ q' = q
           \/ q # <<>> /\ q' = Tail(q) /\ cur' \in {Head(q), NoTask}
           \/ IsPrefix(q, q') /\ cur' = NoTask
        /\ cur' \notin {cur, NoTask} =>
              (q # <<>> /\ cur' = Head(q) /\ q' = Tail(q))
        /\ results' # results => results' = Append(results, Result(cur))

\* C15: results are emitted in the order of a FIFO queue: the seeds leave
\* the queue in the order supplied and before every discovered link, tasks
\* leave it in the order they were put in, and the depths of successive
\* results never decrease.
C15_FifoOrder == [][FifoOrdered' /\ FifoStep]_vars

\* Two seeds were supplied, and a seed and then a page found through a
\* link were emitted.
C15_Witness ==
    /\ Len(start_urls) >= 2
    /\ Len(results) = 2
    /\ results[1].depth = 0
    /\ results[2].depth = 1

\* C16, as stated: the loop is left only when the queue is empty or
\* |visited| >= max_pages.
C16_StopsOnlyWhenExhausted ==
    pc \in {"done", "raised", "no_results", "saved"} =>
        (q = <<>> \/ Cardinality(visited) >= max_pages)

\* C17: with an empty seed list the loop body is never entered: nothing is
\* visited, delayed, checked against robots.txt or fetched, crawl() returns
\* no results, and main() reports that and returns.
C17_EmptySeedsNoWork ==
    (pc # "idle" /\ start_urls = <<>>) =>
        /\ pc \in {"loop", "done", "no_results"}
        /\ pc = "loop" => ~LoopCond
        /\ visited = {} /\ results = <<>> /\ q = <<>>
        /\ cur = NoTask /\ ~delayed /\ ~requested
        /\ \A u \in URLs : fetched[u] = 0 /\ added[u] = 0
        /\ \A o \in Origins : robotsReads[o] = 0

\* main() has reported that a crawl of no seeds found nothing.
C17_Witness ==
    /\ impl = "state"
    /\ start_urls = <<>>
    /\ pc = "no_results"

\* C18: in a session of the state crawler seeded with one URL the number
\* of pending tasks never exceeds 2 * max_pages, nor does it together
\* with |visited|: the links beyond the cap are not put in the queue.
C18_FanOutCapped ==
    (impl = "state" /\ pc # "idle" /\ Len(start_urls) = 1) =>
        /\ Len(q) <= 2 * max_pages
        /\ Load <= 2 * max_pages

\* The seed page was admitted and linked to at least two new URLs, and the
\* cap kept one of them out of the queue.
C18_Witness ==
    /\ impl = "state"
    /\ Len(start_urls) = 1
    /\ pc = "loop"
    /\ admitted
    /\ visited = {start_urls[1]}
    /\ Cardinality(links \ visited) >= 2
    /\ q # <<>>
    /\ \E l \in links \ visited : \A i \in DOMAIN q : q[i].url # l
    /\ Load = 2 * max_pages

\* The tokens of ContactWords that are e-mail addresses, and those that
\* are phone numbers.
EmailWords == {ContactWords[2], ContactWords[5]}

PhoneWords == {ContactWords[4], ContactWords[6]}

\* The first token of ws that is in S, as a list of at most one string.
FirstOf(ws, S) ==
    LET hits == {i \in DOMAIN ws : ws[i] \in S}
    IN  IF hits = {} THEN <<>> ELSE <<ws[Least(hits)]>>

EmailLabel == <<"E", "m", "a", "i", "l", ":", " ">>

PhoneLabel == <<"P", "h", "o", "n", "e", ":", " ">>

\* C19: the contact field is "Email: " and the first address of the text,
\* then "Phone: " and the first number, joined by "; " when both are there;
\* the one that is there alone; empty when neither is.  For the text
\* "Contact: jane@example.org or 555-123-4567" it is
\* "Email: jane@example.org; Phone: 555-123-4567".
C19_ContactField ==
    "extract_program_details" \in applied =>
        LET e == FirstOf(in_words, EmailWords)
            p == FirstOf(in_words, PhoneWords)
        IN  /\ contact_info =
                  IF e # <<>> /\ p # <<>>
                  THEN EmailLabel \o e[1] \o <<";", " ">> \o PhoneLabel \o p[1]
                  ELSE IF e # <<>> THEN EmailLabel \o e[1]
                  ELSE IF p # <<>> THEN PhoneLabel \o p[1]
                  ELSE <<>>
            /\ in_words = SubSeq(ContactWords, 1, 4) =>
                  contact_info =
                    <<"E", "m", "a", "i", "l", ":", " ", "j", "a", "n", "e",
                      "@", "e", "x", "a", "m", "p", "l", "e", ".", "o", "r",
                      "g", ";", " ", "P", "h", "o", "n", "e", ":", " ", "5",
                      "5", "5", "-", "1", "2", "3", "-", "4", "5", "6", "7">>

\* The contact field of "Contact: jane@example.org or 555-123-4567" was
\* extracted.
C19_Witness ==
    /\ "extract_program_details" \in applied
    /\ in_words = SubSeq(ContactWords, 1, 4)
    /\ contact_info # <<>>

\* The state crawler ends an iteration with a result.
Emitted ==
    /\ impl = "state"
    /\ pc = "fetched"
    /\ pc' = "loop"
    /\ results' = Append(results, Result(cur))

\* The tasks a step puts in the queue.
NewTasks == {q'[i] : i \in (Len(q) + 1)..Len(q')}

\* C20, as stated: when a result is emitted at depth d < max_depth and the
\* cap is not reached, every extracted link is a new task at depth d + 1;
\* at d = max_depth the queue is left alone.
C20_EveryLinkEnqueued ==
    [][Emitted =>
         IF cur.depth < max_depth
         THEN Load' < 2 * max_pages =>
                \A l \in links' :
                    [url |-> l, depth |-> cur.depth + 1] \in NewTasks
         ELSE q' = q]_vars

\* C20, amended: when a result is emitted at depth d < max_depth, the new
\* tasks are at depth d + 1 and are for extracted links not in visited,
\* and every such link is a new task unless the cap was reached; a link in
\* visited (the page itself, for one) is not put in the queue.  At
\* d = max_depth extract_links is not called and the queue is left alone.
C20_EveryUnvisitedLinkEnqueued ==
    [][Emitted =>
         IF cur.depth < max_depth
         THEN /\ IsPrefix(q, q')
              /\ \A t \in NewTasks :
                    t.depth = cur.depth + 1 /\ t.url \in links' \ visited
              /\ Load' < 2 * max_pages =>
                    \A l \in links' \ visited :
                        [url |-> l, depth |-> cur.depth + 1] \in NewTasks
         ELSE q' = q /\ links' = {}]_vars

\* A result was emitted above the depth limit for a page that links to
\* itself and to a new URL: the new URL is the last task of the queue.
C20_Witness ==
    /\ impl = "state"
    /\ pc = "loop"
    /\ admitted
    /\ links \cap visited # {}
    /\ q # <<>>
    /\ q[Len(q)].url \in links \ visited
    /\ q[Len(q)].depth >= 1

\* The media type of a content-type header: what stands in front of the
\* parameters.
MediaType(header) ==
    LET semis == {i \in DOMAIN header : header[i] = ";"}
    IN  IF semis = {} THEN header ELSE SubSeq(header, 1, Least(semis) - 1)

\* C21, as stated: a response of the state crawler whose content type is
\* not HTML is skipped before any parsing: get_page_content returns None,
\* and the next step of the session ends the task and goes back to the
\* loop test with the results and the queue as they were, nothing
\* admitted, no link extracted and no error.
C21_NonHtmlSkipped ==
    [][(impl = "state" /\ content_type # NotRead
            /\ MediaType(content_type) # TextHtml) =>
         /\ pc = "fetched"
         /\ html = "None"
         /\ pc' = "loop"
         /\ cur' = NoTask
         /\ results' = results
         /\ q' = q
         /\ visited' = visited
         /\ ~admitted'
         /\ links' = {}]_vars

\* The maximal runs of word characters of s from s[i] on, in their order.
RECURSIVE WordRuns(_, _)
WordRuns(s, i) ==
    IF i > Len(s) THEN <<>>
    ELSE IF ~IsWordChar(s[i]) THEN WordRuns(s, i + 1)
    ELSE LET e == RunEnd(s, i, Letters \cup Digits \cup {"_"})
         IN  <<SubSeq(s, i, e)>> \o WordRuns(s, e + 1)

\* The words of a text that are the name or the abbreviation of a state,
\* in the order of the text.
IsRegionToken(w) == w \in Range(state_pattern)

Mentions(text_lower) == SelectSeq(WordRuns(text_lower, 1), IsRegionToken)

\* Mention k is of a most frequent token, and no token as frequent is met
\* earlier in the text.
Wins(k, ms) ==
    LET n(m) == Cardinality({i \in DOMAIN ms : ms[i] = m})
    IN  \A j \in DOMAIN ms :
            \/ n(ms[j]) < n(ms[k])
            \/ n(ms[j]) = n(ms[k]) /\ \E i \in 1..j : ms[i] = ms[k]

\* The value names state i, by its name or by its abbreviation.
Denotes(value, i) ==
    value \in {title(US_STATES[i]), STATE_ABBREVS[i], title(STATE_ABBREVS[i])}

\* C22: region extraction takes the first source that matches: (a) the
\* name of a state that is a substring of the URL, (b) an abbreviation
\* that is a delimited segment of the URL ("/xx/" or ".xx."), (c) the most
\* frequent name or abbreviation token of the text, the one met first in
\* the text among equally frequent ones; "Unknown" when there is none.
C22_RegionPriority ==
    "extract_state_from_content" \in applied =>
        LET u == lower(in_url)
            names == {i \in DOMAIN US_STATES : Contains(US_STATES[i], u)}
            abbrevs == {i \in DOMAIN STATE_ABBREVS :
                           \/ Contains(<<"/">> \o lower(STATE_ABBREVS[i])
                                           \o <<"/">>, u)
                           \/ Contains(<<".">> \o lower(STATE_ABBREVS[i])
                                           \o <<".">>, u)}
            ms == Mentions(lower(in_text))
        IN  IF names # {} THEN \E i \in names : state = title(US_STATES[i])
            ELSE IF abbrevs # {} THEN \E i \in abbrevs : Denotes(state, i)
            ELSE IF ms # <<>>
            THEN \E k \in DOMAIN ms : Wins(k, ms) /\ state = title(ms[k])
            ELSE state = <<"U", "n", "k", "n", "o", "w", "n">>

\* The region of the text "Texas Ohio" under a URL that names no region:
\* the two tokens are equally frequent and the first one is returned.
C22_Witness ==
    /\ "extract_state_from_content" \in applied
    /\ in_words = SubSeq(RegionWords, 1, 2)
    /\ in_url = <<"h", "t", "t", "p", ":", "/", "/", "x", ".", "t", "e", "s",
                  "t", "/">>
    /\ state = <<"T", "e", "x", "a", "s">>

\* C23, as stated: in a session of the state crawler every admitted page
\* gets exactly one result record and the results are append-only: a step
\* leaves the records there are as they are and adds at most one, for the
\* task in hand; every result's URL is in visited, no two results share a
\* URL, and there are at most |visited| and at most max_pages results.
C23_OneRecordPerAdmittedPage ==
    [][(impl = "state" /\ pc # "idle") =>
         /\ (pc = "fetched" /\ admitted') =>
                results' = Append(results, Result(cur))
         /\ results' # results =>
                (pc = "fetched" /\ admitted'
                    /\ results' = Append(results, Result(cur)))
         /\ \A i \in DOMAIN results' : results'[i].url \in visited'
         /\ \A i, j \in DOMAIN results' :
                results'[i].url = results'[j].url => i = j
         /\ Len(results') <= Cardinality(visited')
         /\ Len(results') <= max_pages']_vars

\* C24: links are followed only from admitted pages.  A step puts tasks in
\* the queue only when it ends the processing of a page that was fetched
\* (and, in the state crawler, let through by the gate), passed the
\* relevance test and got its result record in the same step; the tasks
\* are for links extracted from that page, one level deeper.  A step that
\* ends a task in any other way leaves the queue as it was.
C24_LinksOnlyFromAdmitted ==
    [][pc # "idle" =>
         /\ NewTasks # {} =>
                /\ pc = "fetched"
                /\ html = "page"
                /\ fetchEnd = "ok"
                /\ impl = "state" => allowed = "yes"
                /\ admitted'
                /\ results' = Append(results, Result(cur))
                /\ IsPrefix(q, q')
                /\ \A t \in NewTasks :
                       t.url \in links' /\ t.depth = cur.depth + 1
         /\ (pc = "fetched" /\ ~(admitted' /\ results' # results)) =>
                q' = q]_vars

\* The companion script has put a link of an admitted page in the queue,
\* one level below the page.
C24_Witness ==
    /\ impl = "full"
    /\ pc = "loop"
    /\ admitted
    /\ results # <<>>
    /\ q # <<>>
    /\ q[Len(q)].url \in links
    /\ q[Len(q)].depth = results[Len(results)].depth + 1

====
